---- MODULE Spec2Model ----
(***************************************************************************)
(* Activation diffusion of EngramNetwork3D (handleActivate and the timers  *)
(* it starts): the activation ledger, the pulse list, and the deferred     *)
(* callbacks (propagation timeouts, decay intervals, pulse-clear           *)
(* timeouts).                                                              *)
(*                                                                         *)
(* Time is counted in units of 100 ms, the greatest common divisor of all  *)
(* timer delays of the component (100, 400*depth, 3000).  Levels are       *)
(* fixed-point numbers in millionths (1.0 is 1000000): every level the     *)
(* component can hold is 0.6^j * 0.95^k, and none of the comparisons of    *)
(* the code (against 0.05, 0.1, 0.2, or between two levels) is closer      *)
(* than 1e-3, so truncation to millionths decides them as the doubles do.  *)
(***************************************************************************)
EXTENDS Integers, Sequences, FiniteSets, TLC

\* ---- bounds of the model (not program constants) ----
MaxClicks == 2
MaxClickTime == 1

\* ---- program constants ----
One == 1000000
Floor == 50000
MinStrength == 100000
PulseThreshold == 200000
MaxDepth == 3
DecayPeriod == 1
ClearDelay == 30

\* ids a click may carry: the hub (0), a leaf (3) and an id of no node (6)
ClickIds == {0, 3, 6}

NodeIds == {0, 1, 2, 3, 4, 5}

Edge(s, t) == [source |-> s, target |-> t]

RefEdges == <<Edge(0, 1), Edge(0, 2), Edge(1, 3), Edge(2, 4), Edge(4, 5), Edge(1, 2)>>

\* the reference edges plus one edge whose target is the id of no node
StaleEdges == RefEdges \o <<Edge(3, 6)>>

\* ---- arithmetic of the levels ----
\* mutant: a per-hop factor of 0.5
TransferHalf(strength) == (strength * 5) \div 10

Transfer(strength) == (strength * 6) \div 10

\* mutant: a sweep multiplies by 0.9
DecayedFast(value) == (value * 90) \div 100

Decayed(value) == (value * 95) \div 100

\* mutant: every hop waits 400 ms, whatever its depth
SpreadDelayFlat(depth) == 4

SpreadDelay(depth) == 4 * depth

\* ---- the clicks the model issues: which ids, how many, at which times ----
User(ids, left, times) == [ids |-> ids, left |-> left, times |-> times]

\* any clicks, early
AnyUser == User(ClickIds, MaxClicks, 0..MaxClickTime)

\* a burst of four clicks on the hub within one time unit
BurstUser == User({0}, 4, {0})

\* two clicks on the hub, the second when the first wave's second hop is started,
\* so that callbacks of both waves come due together
WavesUser == User({0}, 2, {0, SpreadDelay(2)})

\* clicks on the hub and on an unknown id, at the first and at the last click time
LiveUser == User({0, 6}, MaxClicks, {0, MaxClickTime})

VARIABLES nodes, edges, activations, pulseWaves, timers, now, user, ncalls, last, delivered

vars == <<nodes, edges, activations, pulseWaves, timers, now, user, ncalls, last, delivered>>

\* ---- the ledger (a Map: a function on the set of its keys) ----
EmptyMap == [k \in {} |-> 0]

MapSet(prev, key, value) == [k \in (DOMAIN prev) \cup {key} |-> IF k = key THEN value ELSE prev[k]]

Level(map, id) == IF id \in DOMAIN map THEN map[id] ELSE 0

\* mutant: the click seeds only a node that has no entry
SeedIfAbsent(prev, id) == IF id \in DOMAIN prev THEN prev ELSE MapSet(prev, id, One)

\* mutant: the click starts a new ledger holding the clicked node only
SeedReset(prev, id) == [k \in {id} |-> One]

SeedLevel(prev, id) == MapSet(prev, id, One)

\* mutant: the merge overwrites whatever is there
SetAlways(prev, neighborId, transferStrength) == MapSet(prev, neighborId, transferStrength)

\* mutant: the merge installs only where there is no entry
SetIfAbsent(prev, neighborId, transferStrength) ==
    IF neighborId \in DOMAIN prev THEN prev ELSE MapSet(prev, neighborId, transferStrength)

SetIfHigher(prev, neighborId, transferStrength) ==
    IF transferStrength > Level(prev, neighborId)
    THEN MapSet(prev, neighborId, transferStrength)
    ELSE prev

\* mutant: a sweep keeps every entry that is still above zero
DecayKeepPositive(value) == Decayed(value) > 0

DecayKeep(value) == Decayed(value) > Floor

DecayAll(prev) ==
    LET keep == {k \in DOMAIN prev : DecayKeep(prev[k])}
    IN  [k \in keep |-> Decayed(prev[k])]

\* ---- timers ----
\* call, origin and at (the number, the node and the time of the handleActivate call the
\* timer belongs to) are what the closure of the callback captures
Timer(kind, sourceId, strength, depth, left, call, origin, at) ==
    [kind |-> kind, sourceId |-> sourceId, strength |-> strength, depth |-> depth,
     left |-> left, call |-> call, origin |-> origin, at |-> at]

\* the delay the timer was (last) started with
Ms(t) ==
    CASE t.kind = "spread" -> SpreadDelay(t.depth)
      [] t.kind = "decay" -> DecayPeriod
      [] OTHER -> ClearDelay

Due(i) == timers[i].left = 0

\* Timers fire when they are due.  Of the timers due at the same time, one started earlier
\* with a delay not longer than another's runs before it (timers of equal delay run in the
\* order they were started); a timer started later with a shorter delay, such as the next
\* tick of an interval next to a propagation timeout, may run before or after.
CanFire(i) == Due(i) /\ \A j \in 1..(i - 1) : ~(Due(j) /\ Ms(timers[j]) <= Ms(timers[i]))

RemoveAt(seq, i) == SubSeq(seq, 1, i - 1) \o SubSeq(seq, i + 1, Len(seq))

\* mutant: the depth cutoff is off by one
StopsLate(depth, strength) == depth > MaxDepth + 1 \/ strength < MinStrength

Stops(depth, strength) == depth > MaxDepth \/ strength < MinStrength

\* spreadActivation(sourceId, strength, depth): the timeout it starts, if any
SpreadActivation(sourceId, strength, depth, call, origin, at) ==
    IF Stops(depth, strength)
    THEN <<>>
    ELSE <<Timer("spread", sourceId, strength, depth, SpreadDelay(depth), call, origin, at)>>

\* mutant: the lookup of the clicked node is not checked
NodeFoundAlways(id) == TRUE

NodeFound(id) == id \in nodes

Pulse(id, call) == [origin |-> id, startTime |-> now, call |-> call]

\* ---- the propagation callback ----
Connected(sourceId) == SelectSeq(edges, LAMBDA e : e.source = sourceId \/ e.target = sourceId)

NeighborId(edge, sourceId) == IF edge.source = sourceId THEN edge.target ELSE edge.source

Neighbors(sourceId) ==
    LET c == Connected(sourceId)
    IN  [i \in 1..Len(c) |-> NeighborId(c[i], sourceId)]

RECURSIVE MergeAll(_, _, _)
MergeAll(prev, nbs, ts) ==
    IF nbs = <<>> THEN prev
    ELSE MergeAll(SetIfHigher(prev, Head(nbs), ts), Tail(nbs), ts)

\* mutant: only a strength above 0.25 emits a pulse
EmitsPulseStrong(neighborId, ts) == NodeFound(neighborId) /\ ts > 250000

EmitsPulse(neighborId, ts) == NodeFound(neighborId) /\ ts > PulseThreshold

RECURSIVE NeighborPulses(_, _, _)
NeighborPulses(nbs, ts, call) ==
    IF nbs = <<>> THEN <<>>
    ELSE (IF EmitsPulse(Head(nbs), ts) THEN <<Pulse(Head(nbs), call)>> ELSE <<>>)
         \o NeighborPulses(Tail(nbs), ts, call)

RECURSIVE NeighborTimers(_, _, _, _, _, _)
NeighborTimers(nbs, ts, depth, call, origin, at) ==
    IF nbs = <<>> THEN <<>>
    ELSE SpreadActivation(Head(nbs), ts, depth + 1, call, origin, at)
         \o NeighborTimers(Tail(nbs), ts, depth, call, origin, at)

\* the ledger after the callback of spread timer t has run on ledger prev
SpreadLedger(prev, t) == MergeAll(prev, Neighbors(t.sourceId), Transfer(t.strength))

\* what the last step did: the operation, the node it was about (the clicked id or the
\* source of the propagation), the call it belongs to and that call's node, the depth and
\* delivered strength of a propagation, the level of the clicked node before the click
\* (for a decay tick: the number of entries before the sweep), and the calls whose pulses
\* a clear discarded
Last(op, id, call, origin, at, depth, ts, before, calls) ==
    [op |-> op, id |-> id, call |-> call, origin |-> origin, at |-> at, depth |-> depth,
     ts |-> ts, before |-> before, calls |-> calls]

NoLast(op) == Last(op, 0, 0, 0, 0, 0, 0, 0, {})

\* mutant: the clear drops only the pulses of its own call
ClearedOwnPulses(pulses, call) == SelectSeq(pulses, LAMBDA p : p.call # call)

ClearedPulses(pulses, call) == <<>>

\* mutant: a click cancels the propagation tasks still pending
StartedAfresh(old, id, call) ==
    SelectSeq(old, LAMBDA t : t.kind # "spread")
        \o SpreadActivation(id, One, 1, call, id, now)
        \o <<Timer("decay", 0, 0, 0, DecayPeriod, call, id, now)>>
        \o <<Timer("clear", 0, 0, 0, ClearDelay, call, id, now)>>

\* the timers after handleActivate(id): those pending, and the three it starts
Started(old, id, call) ==
    old \o SpreadActivation(id, One, 1, call, id, now)
        \o <<Timer("decay", 0, 0, 0, DecayPeriod, call, id, now)>>
        \o <<Timer("clear", 0, 0, 0, ClearDelay, call, id, now)>>

\* mutant: the interval is cleared after every sweep
HasActiveNodesNever(newMap) == FALSE

\* mutant: the interval is never cleared
HasActiveNodesAlways(newMap) == TRUE

HasActiveNodes(newMap) == newMap # EmptyMap

\* ---- actions ----
InitWith(e, u) ==
    /\ nodes = NodeIds
    /\ edges = e
    /\ activations = EmptyMap
    /\ pulseWaves = <<>>
    /\ timers = <<>>
    /\ now = 0
    /\ user = u
    /\ ncalls = 0
    /\ last = NoLast("init")
    /\ delivered = {}

Init == InitWith(RefEdges, AnyUser)

InitStale == InitWith(StaleEdges, AnyUser)

InitBurst == InitWith(RefEdges, BurstUser)

InitWaves == InitWith(RefEdges, WavesUser)

\* handleActivate(id)
Activate(id) ==
    /\ user.left > 0
    /\ now \in user.times
    /\ id \in user.ids
    /\ user' = [user EXCEPT !.left = @ - 1]
    /\ ncalls' = ncalls + 1
    /\ last' = Last("activate", id, ncalls + 1, id, now, 0, 0, Level(activations, id), {})
    /\ IF ~NodeFound(id)
       THEN UNCHANGED <<activations, pulseWaves, timers>>
       ELSE /\ pulseWaves' = Append(pulseWaves, Pulse(id, ncalls + 1))
            /\ activations' = SeedLevel(activations, id)
            /\ timers' = Started(timers, id, ncalls + 1)
    /\ UNCHANGED <<nodes, edges, now, delivered>>

\* the timeout callback of spreadActivation
FireSpread(i) ==
    /\ i \in 1..Len(timers)
    /\ timers[i].kind = "spread"
    /\ CanFire(i)
    /\ LET t == timers[i]
           nbs == Neighbors(t.sourceId)
           ts == Transfer(t.strength)
       IN  /\ activations' = SpreadLedger(activations, t)
           /\ pulseWaves' = pulseWaves \o NeighborPulses(nbs, ts, t.call)
           /\ timers' = RemoveAt(timers, i) \o NeighborTimers(nbs, ts, t.depth, t.call, t.origin, t.at)
           /\ delivered' = IF nbs = <<>> THEN delivered ELSE delivered \cup {<<t.depth, ts>>}
           /\ last' = Last("spread", t.sourceId, t.call, t.origin, t.at, t.depth, ts, 0, {})
    /\ UNCHANGED <<nodes, edges, now, user, ncalls>>

\* one tick of a decayInterval
FireDecay(i) ==
    /\ i \in 1..Len(timers)
    /\ timers[i].kind = "decay"
    /\ CanFire(i)
    /\ LET newMap == DecayAll(activations)
       IN  /\ activations' = newMap
           /\ timers' = IF HasActiveNodes(newMap)
                        THEN RemoveAt(timers, i) \o <<[timers[i] EXCEPT !.left = DecayPeriod]>>
                        ELSE RemoveAt(timers, i)
           /\ last' = Last("decay", 0, timers[i].call, timers[i].origin, timers[i].at, 0, 0,
                           Cardinality(DOMAIN activations), {})
    /\ UNCHANGED <<nodes, edges, pulseWaves, now, user, ncalls, delivered>>

\* the pulse cleanup timeout
FireClear(i) ==
    /\ i \in 1..Len(timers)
    /\ timers[i].kind = "clear"
    /\ CanFire(i)
    /\ pulseWaves' = ClearedPulses(pulseWaves, timers[i].call)
    /\ timers' = RemoveAt(timers, i)
    /\ last' = Last("clear", 0, timers[i].call, timers[i].origin, timers[i].at, 0, 0, 0,
                    {pulseWaves[k].call : k \in 1..Len(pulseWaves)})
    /\ UNCHANGED <<nodes, edges, activations, now, user, ncalls, delivered>>

\* 100 ms pass: nothing is due, and something is still to come
Tick ==
    /\ \A i \in 1..Len(timers) : ~Due(i)
    /\ timers # <<>> \/ (user.left > 0 /\ \E t \in user.times : t > now)
    /\ now' = now + 1
    /\ timers' = [i \in 1..Len(timers) |-> [timers[i] EXCEPT !.left = @ - 1]]
    /\ last' = NoLast("tick")
    /\ UNCHANGED <<nodes, edges, activations, pulseWaves, user, ncalls, delivered>>

Next ==
    \/ \E id \in ClickIds : Activate(id)
    \/ \E i \in 1..Len(timers) : FireSpread(i)
    \/ \E i \in 1..Len(timers) : FireDecay(i)
    \/ \E i \in 1..Len(timers) : FireClear(i)
    \/ Tick

Spec == Init /\ [][Next]_vars

SpecStale == InitStale /\ [][Next]_vars

SpecBurst == InitBurst /\ [][Next]_vars

SpecWaves == InitWaves /\ [][Next]_vars

\* the event loop runs a callback that is due, and time passes while none is
Progress ==
    \/ \E i \in 1..Len(timers) : FireSpread(i) \/ FireDecay(i) \/ FireClear(i)
    \/ Tick

InitLive == InitWith(RefEdges, LiveUser)

\* the clicks are the user's to make or not; the timers are the event loop's to run
SpecLive == InitLive /\ [][Next]_vars /\ WF_vars(Progress)

\* ---- helpers of the properties ----
IsKind(i, kind) == i \in 1..Len(timers) /\ timers[i].kind = kind

TimersOf(kind) == {i \in 1..Len(timers) : timers[i].kind = kind}

Max(a, b) == IF a >= b THEN a ELSE b

NeighborSet(id) == {Neighbors(id)[k] : k \in 1..Len(Neighbors(id))}

\* the nodes at most k hops from the nodes of S
RECURSIVE Within(_, _)
Within(S, k) ==
    IF k = 0 THEN S
    ELSE Within(S \cup UNION {NeighborSet(n) : n \in S}, k - 1)

\* the ledger after the callback of timer t has run on ledger map
ApplyCallback(map, t) ==
    CASE t.kind = "spread" -> SpreadLedger(map, t)
      [] t.kind = "decay" -> DecayAll(map)
      [] OTHER -> map

Commute(i, j) ==
    ApplyCallback(ApplyCallback(activations, timers[i]), timers[j])
        = ApplyCallback(ApplyCallback(activations, timers[j]), timers[i])

\* ---- C1 ----
\* C1 (as claimed): in every reachable state at most one decay loop is active; an activate
\* issued while a loop is running starts no second one.
C1_AtMostOneDecayLoop == Cardinality(TimersOf("decay")) <= 1

\* ---- C2 ----
\* C2 (as claimed): once nothing is pending any more (no decay loop, no propagation task, no
\* clear: without a further activate the state never changes again), the ledger is empty.
C2_LedgerEmptyWhenIdle == timers = <<>> => activations = EmptyMap

\* ---- C3 ----
\* C3 (as claimed): whenever two deferred callbacks are fireable in the same state, running
\* them in either order gives the same ledger.
C3_AnyOrderSameLedger ==
    \A i, j \in 1..Len(timers) : (CanFire(i) /\ CanFire(j)) => Commute(i, j)

\* C3 (amended): whenever two propagation callbacks are due in the same state, running them
\* in either order gives the same ledger.
C3_SpreadOrderSameLedger ==
    \A i, j \in TimersOf("spread") : (Due(i) /\ Due(j)) => Commute(i, j)

\* two propagation callbacks of different calls, fireable together, deliver different
\* strengths to a common neighbor that is below both
C3_Witness ==
    \E i, j \in TimersOf("spread") :
        /\ CanFire(i) /\ CanFire(j)
        /\ timers[i].call # timers[j].call
        /\ Transfer(timers[i].strength) < Transfer(timers[j].strength)
        /\ \E m \in NeighborSet(timers[i].sourceId) \cap NeighborSet(timers[j].sourceId) :
               Level(activations, m) < Transfer(timers[i].strength)

\* ---- C4 ----
\* a propagation callback leaves every neighbor of its source at the higher of its old
\* level and the delivered strength, and every other node as it was
C4_Step ==
    last'.op = "spread" =>
        \A m \in nodes :
            Level(activations', m) =
                IF m \in NeighborSet(last'.id)
                THEN Max(Level(activations, m), last'.ts)
                ELSE Level(activations, m)

\* two propagation callbacks due together leave a common neighbor at the highest of its old
\* level and the two strengths, whichever runs first
C4_Pair ==
    \A i, j \in TimersOf("spread") :
        (i # j /\ Due(i) /\ Due(j)) =>
            \A m \in NeighborSet(timers[i].sourceId) \cap NeighborSet(timers[j].sourceId) :
                Level(ApplyCallback(ApplyCallback(activations, timers[i]), timers[j]), m)
                    = Max(Level(activations, m),
                          Max(Transfer(timers[i].strength), Transfer(timers[j].strength)))

\* C4: a propagation step never lowers a level: it installs the delivered strength only
\* over no entry or a strictly lower one; two arrivals with no decay between them leave the
\* higher strength, in either order.
C4_MergeNeverLowers == [][C4_Step]_vars /\ []C4_Pair

\* the weaker arrival (0.36) came after the stronger one (0.6) and left it in place
C4_Witness ==
    /\ last.op = "spread"
    /\ last.ts = Transfer(Transfer(One))
    /\ \E m \in NeighborSet(last.id) : Level(activations, m) = Transfer(One)

\* ---- C5 ----
\* C5: right after activate(n) on an existing node n, the level of n is 1.0, whatever it
\* was before.
C5_ActivateSeedsOne ==
    (last.op = "activate" /\ last.id \in nodes) => Level(activations, last.id) = One

\* the clicked node held a decayed level, and timers of an earlier call were pending
C5_Witness ==
    /\ last.op = "activate"
    /\ last.id \in nodes
    /\ last.before > 0
    /\ last.before < One
    /\ \E i \in TimersOf("spread") : timers[i].call < last.call
    /\ Level(activations, last.id) = One

\* ---- C6 ----
\* C6: spreadActivation with depth > 3 or strength < 0.1 starts nothing: no propagation
\* task is pending at a depth above 3 or a strength below 0.1, a callback of depth 3 starts
\* no task for its neighbors (one of a lower depth starts one for each), and a callback
\* delivers only to nodes at most 3 hops (at most its depth) from the clicked node.
C6_Cutoff ==
    /\ \A i \in TimersOf("spread") :
           /\ SpreadActivation(timers[i].sourceId, MinStrength - 1, timers[i].depth, 1, 0, 0) = <<>>
           /\ SpreadActivation(timers[i].sourceId, MinStrength, timers[i].depth, 1, 0, 0) # <<>>
    /\ \A i \in TimersOf("spread") :
           /\ timers[i].depth \in 1..MaxDepth
           /\ timers[i].strength >= MinStrength
    /\ last.op = "spread" =>
           /\ last.depth <= MaxDepth
           /\ NeighborSet(last.id) \subseteq Within({last.origin}, last.depth)
           /\ \A m \in NeighborSet(last.id) :
                  (\E i \in TimersOf("spread") :
                       /\ timers[i].sourceId = m
                       /\ timers[i].call = last.call
                       /\ timers[i].depth = last.depth + 1
                       /\ timers[i].strength = last.ts
                       /\ timers[i].left = SpreadDelay(last.depth + 1))
                      <=> last.depth < MaxDepth

\* the third hop of a click on node 3 has run, and node 5, four hops away, has no level
C6_Witness ==
    /\ last.op = "spread"
    /\ last.depth = MaxDepth
    /\ last.origin = 3
    /\ ~(5 \in Within({3}, MaxDepth))
    /\ 5 \in nodes
    /\ ~(5 \in DOMAIN activations)
    /\ \A i \in TimersOf("spread") : timers[i].origin # 3

\* ---- C7 ----
\* C7 (as claimed): once the propagation of a click is over, a strength of 0.1296 has been
\* delivered at depth 4.
C7_DepthFourDelivered ==
    (delivered # {} /\ TimersOf("spread") = {}) => <<MaxDepth + 1, 129600>> \in delivered

\* C7 (amended): the strengths delivered are 0.6, 0.36 and 0.216, at depths 1, 2 and 3, and
\* no other; the next hop would carry 0.1296, which is not below 0.1, but it is cut by the
\* depth limit and never delivered.
C7_DeliveredStrengths ==
    /\ delivered \subseteq {<<1, 600000>>, <<2, 360000>>, <<3, 216000>>}
    /\ (delivered # {} /\ TimersOf("spread") = {})
           => delivered = {<<1, 600000>>, <<2, 360000>>, <<3, 216000>>}
    /\ (last.op = "spread" /\ last.depth = MaxDepth) =>
           /\ Transfer(last.ts) = 129600
           /\ Transfer(last.ts) >= MinStrength
           /\ Transfer(Transfer(last.ts)) = 77760
           /\ \A m \in NeighborSet(last.id) :
                  SpreadActivation(m, last.ts, last.depth + 1, last.call, last.origin, last.at) = <<>>

\* all three hops of a click have delivered and none is pending
C7_Witness ==
    /\ delivered = {<<1, 600000>>, <<2, 360000>>, <<3, 216000>>}
    /\ TimersOf("spread") = {}
    /\ last.op = "spread"

\* ---- C8 ----
\* C8: every activate on a node starts a clear that fires exactly 3000 ms (30 units) after
\* the call, and the state right after a clear has an empty pulse list, whichever call the
\* pulses came from.
C8_ClearEmptiesAll ==
    /\ \A i \in TimersOf("clear") : timers[i].left = timers[i].at + ClearDelay - now
    /\ (last.op = "activate" /\ last.id \in nodes) =>
           \E i \in TimersOf("clear") :
               timers[i].call = last.call /\ timers[i].at = now /\ timers[i].left = ClearDelay
    /\ last.op = "clear" => (pulseWaves = <<>> /\ now = last.at + ClearDelay)

\* a clear has discarded pulses of a later call than its own
C8_Witness ==
    /\ last.op = "clear"
    /\ \E c \in last.calls : c > last.call
    /\ pulseWaves = <<>>

C10_UnknownIdNoOp ==
    [][(last'.op = "activate" /\ ~(last'.id \in nodes))
           => (activations' = activations /\ pulseWaves' = pulseWaves /\ timers' = timers)]_vars

\* an unknown id was clicked while a ledger entry, pulses and timers were there
C10_Witness ==
    /\ last.op = "activate"
    /\ ~(last.id \in nodes)
    /\ activations # EmptyMap
    /\ pulseWaves # <<>>
    /\ timers # <<>>

\* ---- C11 ----
\* the time from the click to the expansion of depth d: 400 * (1 + ... + d) ms
RECURSIVE CumulativeDelay(_)
CumulativeDelay(d) == IF d = 0 THEN 0 ELSE 4 * d + CumulativeDelay(d - 1)

\* C11: the expansion of depth d of a click at time T fires at T + 400 * (1 + ... + d) ms,
\* that is at T + 4, T + 12 and T + 24 units and not at T + 4 * d; when it fires, no task
\* of a lower depth of the same click is pending any more, and the click's pulse clear,
\* due at T + 30, is still pending.
C11_CompoundDelays ==
    /\ CumulativeDelay(1) = 4 /\ CumulativeDelay(2) = 12 /\ CumulativeDelay(3) = 24
    /\ \A i \in TimersOf("spread") :
           now + timers[i].left = timers[i].at + CumulativeDelay(timers[i].depth)
    /\ last.op = "spread" =>
           /\ now = last.at + CumulativeDelay(last.depth)
           /\ last.depth > 1 => now # last.at + 4 * last.depth
           /\ \A i \in TimersOf("spread") :
                  timers[i].call = last.call => timers[i].depth >= last.depth
           /\ \E i \in TimersOf("clear") : timers[i].call = last.call /\ timers[i].left > 0
    /\ last.op = "clear" => \A i \in TimersOf("spread") : timers[i].call # last.call

\* the third hop of a click made at time 1 has fired, at time 25
C11_Witness ==
    /\ last.op = "spread"
    /\ last.depth = MaxDepth
    /\ last.at = 1
    /\ now = 25

\* ---- C12 ----
\* timer t of this state is still pending in the next one, with the same payload
StillPending(t) ==
    \E j \in 1..Len(timers') :
        /\ timers'[j].kind = t.kind
        /\ timers'[j].sourceId = t.sourceId
        /\ timers'[j].strength = t.strength
        /\ timers'[j].depth = t.depth
        /\ timers'[j].call = t.call
        /\ timers'[j].left \in {t.left, t.left - 1}

\* the step is the callback of propagation task t, run with t's payload when t is due
FiredNow(t) ==
    /\ t.left = 0
    /\ last'.op = "spread"
    /\ last'.id = t.sourceId
    /\ last'.call = t.call
    /\ last'.depth = t.depth
    /\ last'.ts = Transfer(t.strength)

\* an activate keeps every pending timer as it is, and a propagation task leaves the
\* pending timers only by firing with its own source, strength and depth
C12_Step ==
    /\ last'.op = "activate" => SubSeq(timers', 1, Len(timers)) = timers
    /\ \A i \in 1..Len(timers) :
           timers[i].kind = "spread" => (StillPending(timers[i]) \/ FiredNow(timers[i]))

\* a pending propagation task is never overdue, and when one is pending a step is possible
C12_Pending ==
    /\ \A i \in TimersOf("spread") : timers[i].left >= 0
    /\ TimersOf("spread") # {} => ((\E i \in 1..Len(timers) : CanFire(i)) \/ (\A i \in 1..Len(timers) : ~Due(i)))

\* C12: a later activate cancels nothing: the propagation tasks of earlier calls stay
\* pending through it and leave only by firing with their original source, strength and
\* depth, so tasks of several waves are pending together.
C12_NothingCancelled == [][C12_Step]_vars /\ []C12_Pending

\* a task of the first call has fired after the second call, whose own tasks are pending
C12_Witness ==
    /\ last.op = "spread"
    /\ last.call = 1
    /\ \E i \in TimersOf("spread") : timers[i].call = 2
    /\ Level(activations, last.origin) > 0

\* ---- C13 ----
\* new is old times 0.95, cut to millionths
TimesDecay(old, new) == 100 * new <= 95 * old /\ 95 * old < 100 * (new + 1)

\* a sweep adds no key, leaves each entry it keeps at 0.95 of its level, which is lower
\* than before, and removes exactly the entries that 0.95 brings to 0.05 or below
C13_Step ==
    last'.op = "decay" =>
        /\ DOMAIN activations' \subseteq DOMAIN activations
        /\ \A k \in DOMAIN activations' :
               /\ TimesDecay(activations[k], activations'[k])
               /\ activations'[k] < activations[k]
        /\ \A k \in DOMAIN activations :
               (k \in DOMAIN activations') <=> (95 * activations[k] >= 100 * (Floor + 1))

\* every entry of the ledger has a level above 0.05 and at most 1
C13_Range == \A k \in DOMAIN activations : activations[k] > Floor /\ activations[k] <= One

\* C13: every decay sweep multiplies each entry by 0.95, which strictly lowers every entry
\* it keeps, removes every entry whose new level is at or below 0.05 and adds no key; every
\* ledger entry has a level in (0.05, 1].
C13_DecaySweep == [][C13_Step]_vars /\ []C13_Range

\* a sweep has removed some entries and kept others
C13_Witness ==
    /\ last.op = "decay"
    /\ activations # EmptyMap
    /\ Cardinality(DOMAIN activations) < last.before

\* ---- C14 ----
\* the last step belongs to a click on node 0 of the reference graph, and no other click on
\* a node has been made (the clear of any other click would still be pending)
SoloHub ==
    /\ edges = RefEdges
    /\ last.origin = 0
    /\ now <= last.at + CumulativeDelay(MaxDepth)
    /\ \A i \in 1..Len(timers) : timers[i].call = last.call

\* the propagation callbacks of depth d of the last step's click have all run
WaveDone(d) ==
    /\ last.op = "spread"
    /\ last.depth = d
    /\ \A i \in TimersOf("spread") : timers[i].depth > d

RECURSIVE DecayedBy(_, _)
DecayedBy(value, k) == IF k = 0 THEN value ELSE DecayedBy((value * 95) \div 100, k - 1)

\* C14 (as claimed): after activate(0) on the empty ledger, level[0] = 1.0 with one pulse at
\* node 0; right after the first wave level[1] = level[2] = 0.6; right after the second
\* wave level[3] = level[4] = 0.36 and level[2] is still 0.6.
C14_Scenario ==
    SoloHub =>
        /\ last.op = "activate" =>
               /\ Level(activations, 0) = One
               /\ Len(pulseWaves) = 1 /\ pulseWaves[1].origin = 0
        /\ WaveDone(1) => (Level(activations, 1) = 600000 /\ Level(activations, 2) = 600000)
        /\ WaveDone(2) =>
               /\ Level(activations, 3) = 360000
               /\ Level(activations, 4) = 360000
               /\ Level(activations, 2) = 600000

\* C14 (amended): after activate(0) on the empty ledger, level[0] = 1.0 with one pulse at
\* node 0; right after the first wave level[1] = level[2] = 0.6; right after the second
\* wave's callback from node 1 level[3] = 0.36, and right after its callback from node 2
\* level[4] = 0.36 (level[3] is then 0.36, or 0.342 if a decay tick ran between the two);
\* the re-merge over edge 1-2 leaves node 2 above 0.36, but at 0.6 decayed by the 7 to 9
\* sweeps since the first wave (0.42 to 0.38), not at 0.6.
C14_ScenarioWithDecay ==
    SoloHub =>
        /\ last.op = "activate" =>
               /\ activations = [k \in {0} |-> One]
               /\ Len(pulseWaves) = 1 /\ pulseWaves[1].origin = 0
        /\ WaveDone(1) => (Level(activations, 1) = 600000 /\ Level(activations, 2) = 600000)
        /\ (last.op = "spread" /\ last.depth = 2 /\ last.id = 1) =>
               /\ Level(activations, 3) = 360000
               /\ \E k \in 7..9 : Level(activations, 2) = DecayedBy(600000, k)
               /\ Level(activations, 2) > 360000
        /\ WaveDone(2) =>
               /\ last.id = 2
               /\ Level(activations, 4) = 360000
               /\ Level(activations, 3) \in {360000, 342000}
               /\ \E k \in 7..9 : Level(activations, 2) = DecayedBy(600000, k)
               /\ Level(activations, 2) > 360000
               /\ Level(activations, 2) < 600000

\* the second wave of a lone click on node 0 is over
C14_Witness ==
    /\ SoloHub
    /\ WaveDone(2)
    /\ Level(activations, 4) = 360000
    /\ Level(activations, 3) = 360000

\* ---- C15 ----
\* the decay loop of call c is running in the given timers
LoopOf(seq, c) == \E i \in 1..Len(seq) : seq[i].kind = "decay" /\ seq[i].call = c

\* a tick whose sweep leaves (or finds) the ledger empty ends its loop, a tick whose sweep
\* leaves an entry starts the next period of its loop, and a loop that has ended is never
\* running again
C15_Step ==
    /\ last'.op = "decay" =>
           /\ LoopOf(timers, last'.call)
           /\ (activations' = EmptyMap) <=> ~LoopOf(timers', last'.call)
           /\ activations' # EmptyMap =>
                  \E i \in 1..Len(timers') :
                      /\ timers'[i].kind = "decay"
                      /\ timers'[i].call = last'.call
                      /\ timers'[i].left = DecayPeriod
    /\ last'.op # "decay" =>
           \A c \in 1..ncalls : LoopOf(timers, c) => LoopOf(timers', c)
    /\ \A c \in 1..ncalls : ~LoopOf(timers, c) => ~LoopOf(timers', c)

\* C15: a decay loop stops rescheduling as soon as one of its sweeps leaves the ledger
\* empty or finds it empty, and never fires again after that tick; it never stops while
\* its sweep leaves at least one entry.
C15_LoopStopsOnEmpty == [][C15_Step]_vars

\* a loop has ticked on a ledger that another loop had emptied, and has stopped
C15_Witness ==
    /\ last.op = "decay"
    /\ last.before = 0
    /\ activations = EmptyMap
    /\ ~LoopOf(timers, last.call)

\* ---- C16 ----
\* the pulses the step has appended
Appended == SubSeq(pulseWaves', Len(pulseWaves) + 1, Len(pulseWaves'))

Origins(pulses) == [k \in 1..Len(pulses) |-> pulses[k].origin]

\* a step other than a clear keeps the pulses there are, unchanged and in place; a
\* propagation callback appends one pulse for each existing neighbor, in edge order, if and
\* only if the delivered strength is above 0.2; an activate on a node appends one pulse at
\* that node; a decay tick and the passing of time append nothing
C16_Step ==
    /\ last'.op # "clear" =>
           /\ Len(pulseWaves') >= Len(pulseWaves)
           /\ SubSeq(pulseWaves', 1, Len(pulseWaves)) = pulseWaves
    /\ last'.op = "spread" =>
           Origins(Appended) =
               SelectSeq(Neighbors(last'.id), LAMBDA m : m \in nodes /\ last'.ts > PulseThreshold)
    /\ last'.op = "activate" =>
           Origins(Appended) = IF last'.id \in nodes THEN <<last'.id>> ELSE <<>>
    /\ last'.op \in {"decay", "tick"} => Appended = <<>>

\* C16: a propagation callback appends a pulse for each existing neighbor if and only if
\* the delivered strength is above 0.2, whether or not the merge changed the level;
\* activate appends exactly one pulse at the origin; between two clears the pulse list
\* only grows by appending.
C16_PulsesAppendOnly == [][C16_Step]_vars

\* a callback has left a neighbor at its higher level and has emitted a pulse at it
C16_Witness ==
    /\ last.op = "spread"
    /\ \E m \in NeighborSet(last.id) :
           /\ Level(activations, m) > last.ts
           /\ \E k \in 1..Len(pulseWaves) :
                  /\ pulseWaves[k].origin = m
                  /\ pulseWaves[k].startTime = now
                  /\ pulseWaves[k].call = last.call

\* ---- C17 ----
\* C17: in every reachable state, if the ledger holds an entry or a propagation task is
\* pending, a decay loop is active: no entry is installed once every loop has stopped.
C17_LoopWhileActive ==
    (activations # EmptyMap \/ TimersOf("spread") # {}) => TimersOf("decay") # {}

\* ---- C18 ----
\* the step leaves the ledger entry of id as it is: present or absent, and the same level
SameEntry(id) ==
    /\ (id \in DOMAIN activations') <=> (id \in DOMAIN activations)
    /\ Level(activations', id) = Level(activations, id)

Keys == DOMAIN activations \cup DOMAIN activations' \cup NodeIds

\* activate(n) leaves the entries of all nodes but n; a propagation callback from s leaves
\* the entries of all nodes not adjacent to s; a decay tick leaves the pulse list; the
\* pulse clear leaves the ledger; no step changes the nodes or the edges
C18_Step ==
    /\ last'.op = "activate" => \A m \in Keys \ {last'.id} : SameEntry(m)
    /\ last'.op = "spread" => \A m \in Keys \ NeighborSet(last'.id) : SameEntry(m)
    /\ last'.op = "decay" => pulseWaves' = pulseWaves
    /\ last'.op = "clear" => activations' = activations
    /\ nodes' = nodes
    /\ edges' = edges

\* C18: each operation changes only its own part of the state: activate(n) leaves the
\* level of every other node, a propagation callback from s changes entries of nodes
\* adjacent to s only, a decay tick leaves the pulse list, the pulse clear leaves the
\* ledger, and no operation changes the node set or the edge set.
C18_Frame == [][C18_Step]_vars

\* a node has been activated while another node holds a level below 1
C18_Witness ==
    /\ last.op = "activate"
    /\ last.id \in nodes
    /\ \E m \in DOMAIN activations : m # last.id /\ activations[m] < One

\* ---- C19 ----
\* the sweeps that take a level to the floor and off the ledger
RECURSIVE SweepsToDrop(_)
SweepsToDrop(value) ==
    IF Decayed(value) > Floor THEN 1 + SweepsToDrop(Decayed(value)) ELSE 1

\* the latest time a timer of a click made at MaxClickTime or before can run: the sweep
\* that finds the ledger empty stops its own loop, every other loop stops one period later
Deadline == MaxClickTime + SweepsToDrop(One) * DecayPeriod + DecayPeriod

Quiet == timers = <<>> /\ pulseWaves = <<>>

\* a pulse on the list waits for a pulse clear; a propagation task and a pulse clear run
\* within their delay of the click; no timer is pending past the deadline
C19_Bounded ==
    /\ pulseWaves # <<>> => TimersOf("clear") # {}
    /\ \A i \in TimersOf("clear") : now <= timers[i].at + ClearDelay
    /\ \A i \in TimersOf("spread") : now <= timers[i].at + CumulativeDelay(MaxDepth)
    /\ timers # <<>> => now <= Deadline

\* C19: after any finite sequence of activate calls the system reaches quiescence: every
\* propagation task and pulse clear has fired, every decay loop has stopped, and the pulse
\* list is empty and stays empty.
C19_Quiescence == <>[]Quiet /\ []C19_Bounded

\* nothing is pending and no pulse is left after two clicks whose waves have been delivered
C19_Witness ==
    /\ Quiet
    /\ ncalls >= 2
    /\ \E d \in delivered : d[1] = MaxDepth

====
